---- MODULE Spec2Model ----
(***************************************************************************)
(* A model of kirklin/deep-decision: the recursive text splitter, the      *)
(* token-budget prompt trimmer built on it, and the decision-tree walk     *)
(* (initial tree, node expansion, concurrent fan-out / fan-in, progress).  *)
(*                                                                         *)
(* A text is a sequence of one-character strings.  JavaScript's falsy      *)
(* defaulting (x || d) is modelled on numbers: 0 stands for both 0 and an  *)
(* omitted option, which the code does not tell apart either.              *)
(***************************************************************************)
EXTENDS Integers, Sequences, FiniteSets, TLC

VARIABLES
    \* ---- trimPrompt (one outermost call and its recursion) ----
    tp_pc,        \* "idle" | "entry" | "split" | "done"
    tp_text,      \* the argument of the outermost call
    tp_ctx,       \* contextSize, the token budget
    tp_prompt,    \* the argument of the innermost call in progress
    tp_depth,     \* recursion depth of the innermost call
    tp_tokens,    \* what the encoder reported for tp_text (-1: not measured)
    tp_chunk,     \* chunkSize of the innermost call once it passed the floor test
    tp_spin,      \* parity of the iterations of a splitBySize loop that cannot exit
    tp_result,    \* the value returned by the outermost call
    \* ---- analyzeDecision (one call) ----
    ad_pc,        \* where analyzeDecision is: "off" | "init" | "walk" | "insights"
                  \*   | "insights_trim" | "insights_call" | "returned" | "failed"
    ad_in,        \* its arguments: [problem, depth, breadth]
    tree,         \* the node objects, by position: path |-> [id, parentId, children]
    pc,           \* where analyzeDecisionTree is on each node
    calls,        \* generation calls issued by expandDecisionNode, per node
    run,          \* the children.map(...) in progress: [node, next], or NoRun
    total,        \* totalBranches (-1: not computed)
    completed,    \* completedBranches.value
    events,       \* the snapshots handed to onProgress, in order
    warned,       \* nodes whose expansion error was logged by warn(...)
    \* ---- splitText (one call on a splitter of its own) ----
    sp_pc,        \* "off" | "call" | "done"
    sp_text,      \* the argument of splitText
    sp_size,      \* options.chunkSize
    sp_overlap,   \* options.chunkOverlap
    sp_chunks,    \* the value returned
    sp_spin,      \* parity of the iterations of a splitBySize loop that cannot exit
    \* ---- calculateTotalBranches (one call on its own) ----
    est_pc,       \* "off" | "call" | "done"
    est_node,     \* the tree of the node argument, by position
    est_args,     \* [depth, maxDepth, breadth]
    est_result    \* the value returned (-1: none yet)

trimVars == <<tp_pc, tp_text, tp_ctx, tp_prompt, tp_depth, tp_tokens, tp_chunk,
              tp_spin, tp_result>>

walkVars == <<ad_pc, ad_in, tree, pc, calls, run, total, completed, events, warned>>

splitVars == <<sp_pc, sp_text, sp_size, sp_overlap, sp_chunks, sp_spin>>

estVars == <<est_pc, est_node, est_args, est_result>>

vars == <<trimVars, walkVars, splitVars, estVars>>

(***************************************************************************)
(* Program constants.                                                      *)
(***************************************************************************)
MIN_CHUNK_SIZE == 140

DefaultChunkSize == 4000

DefaultChunkOverlap == 200

CharsPerToken == 3

\* separators default of RecursiveCharacterTextSplitter: "\n\n", "\n", " ", ""
DefaultSeparators == << <<"\n", "\n">>, <<"\n">>, <<" ">>, <<>> >>

(***************************************************************************)
(* Bounds of the model.                                                    *)
(***************************************************************************)
\* the longest run of separator-free characters in an input text has
\* 70 * MaxRunK characters
MaxRunK == 5

Min(a, b) == IF a < b THEN a ELSE b

Max(a, b) == IF a > b THEN a ELSE b

\* F(e) with e evaluated once: a value bound by a quantifier is computed
\* once, where a LET definition or an operator argument is computed anew at
\* each of its uses (a JavaScript const is computed once)
Let(F(_), e) == CHOOSE r \in {F(v) : v \in {e}} : TRUE

(***************************************************************************)
(* JavaScript string primitives.                                           *)
(***************************************************************************)
\* text.slice(a, b) for 0 <= a, 0 <= b
Slice(text, a, b) ==
    IF a >= Min(b, Len(text)) THEN << >> ELSE SubSeq(text, a + 1, Min(b, Len(text)))

\* sep occurs in text at (1-based) position i
MatchAt(text, sep, i) ==
    /\ i + Len(sep) - 1 <= Len(text)
    /\ \A j \in 1..Len(sep) : text[i + j - 1] = sep[j]

\* text.includes(sep), sep non-empty
Includes(text, sep) == \E i \in 1..Len(text) : MatchAt(text, sep, i)

\* the first position >= i at which sep occurs in text, 0 when there is none
NextMatch(text, sep, i) ==
    Let(LAMBDA hits : IF hits = {} THEN 0 ELSE CHOOSE j \in hits : \A k \in hits : j <= k,
        {j \in i..Len(text) : MatchAt(text, sep, j)})

RECURSIVE SplitFrom(_, _, _, _)
SplitFrom(text, sep, start, acc) ==
    Let(LAMBDA m :
            IF m = 0
            THEN Append(acc, Slice(text, start - 1, Len(text)))
            ELSE Let(LAMBDA acc1 : SplitFrom(text, sep, m + Len(sep), acc1),
                     Append(acc, Slice(text, start - 1, m - 1))),
        NextMatch(text, sep, start))

\* text.split(sep), sep non-empty: the pieces between the non-overlapping
\* occurrences of sep, left to right, empty pieces included
Split(text, sep) == SplitFrom(text, sep, 1, << >>)

(***************************************************************************)
(* RecursiveCharacterTextSplitter.                                         *)
(***************************************************************************)
\* constructor: options.chunkSize || 4000, options.chunkOverlap || 200
NewSplitter(chunkSize, chunkOverlap) ==
    [chunkSize    |-> IF chunkSize = 0 THEN DefaultChunkSize ELSE chunkSize,
     chunkOverlap |-> IF chunkOverlap = 0 THEN DefaultChunkOverlap ELSE chunkOverlap,
     separators   |-> DefaultSeparators]

\* the outcome of a call: the chunks it returns, or that it never returns
Returns(chunks) == [div |-> FALSE, chunks |-> chunks]

Diverges == [div |-> TRUE, chunks |-> << >>]

\* the chunks the loop of splitBySize pushes when its stride is positive:
\* i takes the values 0, stride, 2*stride, ... below text.length, and the
\* chunk pushed at i is text.slice(i, i + chunkSize)
SplitBySizeLoop(text, sp) ==
    LET stride == sp.chunkSize - sp.chunkOverlap
        n == (Len(text) + stride - 1) \div stride
    IN  [k \in 1..n |-> Slice(text, (k - 1) * stride, (k - 1) * stride + sp.chunkSize)]

\* splitBySize: i starts at 0 and moves by chunkSize - chunkOverlap while
\* i < text.length; with a stride <= 0 and a non-empty text the loop
\* condition stays true for ever (i never exceeds 0)
SplitBySize(text, sp) ==
    IF Len(text) > 0 /\ sp.chunkSize - sp.chunkOverlap <= 0
    THEN Diverges
    ELSE Returns(SplitBySizeLoop(text, sp))

\* a packing step that leaves out the piece that does not fit
MergeStepDropsPiece(st, s, sep, sp) ==
    LET potentialSplit == IF st.currentSplit = << >> THEN s ELSE st.currentSplit \o sep \o s
    IN  IF s = << >>
        THEN st
        ELSE IF Len(potentialSplit) <= sp.chunkSize
        THEN [st EXCEPT !.currentSplit = potentialSplit]
        ELSE [currentSplit |-> << >>,
              goodSplits   |-> IF st.currentSplit # << >>
                               THEN Append(st.goodSplits, st.currentSplit)
                               ELSE st.goodSplits]

\* a packing step that does not count the separator it puts in
MergeStepPacksLoose(st, s, sep, sp) ==
    LET potentialSplit == IF st.currentSplit = << >> THEN s ELSE st.currentSplit \o sep \o s
    IN  IF s = << >>
        THEN st
        ELSE IF Len(potentialSplit) <= sp.chunkSize + Len(sep)
        THEN [st EXCEPT !.currentSplit = potentialSplit]
        ELSE [currentSplit |-> s,
              goodSplits   |-> IF st.currentSplit # << >>
                               THEN Append(st.goodSplits, st.currentSplit)
                               ELSE st.goodSplits]

\* one iteration of the packing loop on the piece s: st holds currentSplit
\* and goodSplits
MergeStep(st, s, sep, sp) ==
    LET potentialSplit == IF st.currentSplit = << >> THEN s ELSE st.currentSplit \o sep \o s
    IN  IF s = << >>
        THEN st
        ELSE IF Len(potentialSplit) <= sp.chunkSize
        THEN [st EXCEPT !.currentSplit = potentialSplit]
        ELSE [currentSplit |-> s,
              goodSplits   |-> IF st.currentSplit # << >>
                               THEN Append(st.goodSplits, st.currentSplit)
                               ELSE st.goodSplits]

RECURSIVE MergeLoop(_, _, _, _, _)
MergeLoop(splits, sep, sp, k, st) ==
    IF k > Len(splits)
    THEN IF st.currentSplit # << >> THEN Append(st.goodSplits, st.currentSplit)
         ELSE st.goodSplits
    ELSE Let(LAMBDA st1 : MergeLoop(splits, sep, sp, k + 1, st1),
             MergeStep(st, splits[k], sep, sp))

\* the greedy packing of the pieces of text.split(separator)
GoodSplits(text, sep, sp) ==
    Let(LAMBDA splits :
            MergeLoop(splits, sep, sp, 1, [currentSplit |-> << >>, goodSplits |-> << >>]),
        Split(text, sep))

\* the loop over the separators from the k-th on, then the fallback
RECURSIVE FinalChunks(_, _, _)
FinalChunks(text, sp, k) ==
    IF k > Len(sp.separators)
    THEN SplitBySize(text, sp)
    ELSE LET separator == sp.separators[k]
         IN  IF separator = << >>
             THEN Let(LAMBDA r : IF r.div THEN r
                                 ELSE IF Len(r.chunks) > 1 THEN r
                                 ELSE FinalChunks(text, sp, k + 1),
                      SplitBySize(text, sp))
             ELSE IF Includes(text, separator)
             THEN Let(LAMBDA g : IF Len(g) > 1 THEN Returns(g)
                                 ELSE FinalChunks(text, sp, k + 1),
                      GoodSplits(text, separator, sp))
             ELSE FinalChunks(text, sp, k + 1)

\* the concatenation of the chunk lists parts[lo], ..., parts[hi], in order
RECURSIVE Concat(_, _, _)
Concat(parts, lo, hi) ==
    IF lo > hi THEN << >>
    ELSE IF lo = hi THEN parts[lo].chunks
    ELSE LET mid == (lo + hi) \div 2
         IN  Concat(parts, lo, mid) \o Concat(parts, mid + 1, hi)

\* a last loop that keeps every chunk as it is
ResplitKeepsAll(chunks, sp) == Returns(chunks)

RECURSIVE SplitTextRecursive(_, _)
\* the last loop of splitTextRecursive: a chunk longer than chunkSize is split
\* again, the others are kept; the call returns once every one of them has
Resplit(chunks, sp) ==
    Let(LAMBDA parts :
            IF \E k \in 1..Len(chunks) : parts[k].div
            THEN Diverges
            ELSE Returns(Concat(parts, 1, Len(chunks))),
        [k \in 1..Len(chunks) |->
            IF Len(chunks[k]) > sp.chunkSize
            THEN SplitTextRecursive(chunks[k], sp)
            ELSE Returns(<<chunks[k]>>)])

SplitTextRecursive(text, sp) ==
    Let(LAMBDA fc : IF fc.div THEN Diverges ELSE Resplit(fc.chunks, sp),
        FinalChunks(text, sp, 1))

\* a splitter that hands a non-empty text back as its only chunk
SplitTextKeepsWhole(text, sp) ==
    IF text = << >> THEN Returns(<< >>) ELSE Returns(<<text>>)


SplitText(text, sp) ==
    IF text = << >> THEN Returns(<< >>)
    ELSE IF Len(text) <= sp.chunkSize THEN Returns(<<text>>)
    ELSE SplitTextRecursive(text, sp)

(***************************************************************************)
(* The tokenizer (js-tiktoken's encoder) is outside the repository: a call *)
(* reports one of the counts a tokens-per-characters rate n/d gives,       *)
(* rounded up.  The rate may differ from call to call.                     *)
(***************************************************************************)
TokenRates == {<<2, 1>>, <<1, 1>>, <<1, 2>>, <<1, 4>>}

TokenCounts(text) == {(Len(text) * r[1] + r[2] - 1) \div r[2] : r \in TokenRates}

\* the state of the splitter's variables when splitText is not called on its own
NoSplit ==
    /\ sp_pc = "off"
    /\ sp_text = << >>
    /\ sp_size = 0
    /\ sp_overlap = 0
    /\ sp_chunks = << >>
    /\ sp_spin = 0

\* the state of the estimator's variables when it is not called on its own
NoEstimate ==
    /\ est_pc = "off"
    /\ est_node = << >>
    /\ est_args = [depth |-> 0, maxDepth |-> 0, breadth |-> 0]
    /\ est_result = -1

\* the state of the walk when no analyzeDecision call is under way
NoRun == [node |-> << >>, next |-> 0]

NoWalk ==
    /\ ad_pc = "off"
    /\ ad_in = [problem |-> << >>, depth |-> 0, breadth |-> 0]
    /\ tree = << >>
    /\ pc = << >>
    /\ calls = << >>
    /\ run = NoRun
    /\ total = -1
    /\ completed = 0
    /\ events = << >>
    /\ warned = {}

(***************************************************************************)
(* trimPrompt (OpenAIProvider and OllamaProvider hold the same code).      *)
(***************************************************************************)
\* a trimmer that takes the budget for a number of characters and cuts a
\* text within budget down to it
TrimEntryStepCutsToBudget(length) ==
    LET overflowTokens == length - tp_ctx
        chunkSize == Len(tp_prompt) - overflowTokens * CharsPerToken
    IN  /\ tp_tokens' = IF tp_depth = 0 THEN length ELSE tp_tokens
        /\ IF length <= tp_ctx
           THEN /\ tp_pc' = "done"
                /\ tp_result' = Slice(tp_prompt, 0, tp_ctx)
                /\ UNCHANGED tp_chunk
           ELSE IF chunkSize < MIN_CHUNK_SIZE
           THEN /\ tp_pc' = "done"
                /\ tp_result' = Slice(tp_prompt, 0, MIN_CHUNK_SIZE)
                /\ UNCHANGED tp_chunk
           ELSE /\ tp_pc' = "split"
                /\ tp_chunk' = chunkSize
                /\ UNCHANGED tp_result

\* a trimmer whose floor branch cuts to the estimate instead of the floor
TrimEntryStepCutsToEstimate(length) ==
    LET overflowTokens == length - tp_ctx
        chunkSize == Len(tp_prompt) - overflowTokens * CharsPerToken
    IN  /\ tp_tokens' = IF tp_depth = 0 THEN length ELSE tp_tokens
        /\ IF length <= tp_ctx
           THEN /\ tp_pc' = "done"
                /\ tp_result' = tp_prompt
                /\ UNCHANGED tp_chunk
           ELSE IF chunkSize < MIN_CHUNK_SIZE
           THEN /\ tp_pc' = "done"
                /\ tp_result' = Slice(tp_prompt, 0, Max(chunkSize, 0))
                /\ UNCHANGED tp_chunk
           ELSE /\ tp_pc' = "split"
                /\ tp_chunk' = chunkSize
                /\ UNCHANGED tp_result

\* a trimmer whose floor branch returns the prompt uncut
TrimEntryStepKeepsPrompt(length) ==
    LET overflowTokens == length - tp_ctx
        chunkSize == Len(tp_prompt) - overflowTokens * CharsPerToken
    IN  /\ tp_tokens' = IF tp_depth = 0 THEN length ELSE tp_tokens
        /\ IF length <= tp_ctx
           THEN /\ tp_pc' = "done"
                /\ tp_result' = tp_prompt
                /\ UNCHANGED tp_chunk
           ELSE IF chunkSize < MIN_CHUNK_SIZE
           THEN /\ tp_pc' = "done"
                /\ tp_result' = tp_prompt
                /\ UNCHANGED tp_chunk
           ELSE /\ tp_pc' = "split"
                /\ tp_chunk' = chunkSize
                /\ UNCHANGED tp_result


\* the body of one call up to the splitter: lines 98-112
TrimEntryStep(length) ==
    LET overflowTokens == length - tp_ctx
        chunkSize == Len(tp_prompt) - overflowTokens * CharsPerToken
    IN  /\ tp_tokens' = IF tp_depth = 0 THEN length ELSE tp_tokens
        /\ IF length <= tp_ctx
           THEN /\ tp_pc' = "done"
                /\ tp_result' = tp_prompt
                /\ UNCHANGED tp_chunk
           ELSE IF chunkSize < MIN_CHUNK_SIZE
           THEN /\ tp_pc' = "done"
                /\ tp_result' = Slice(tp_prompt, 0, MIN_CHUNK_SIZE)
                /\ UNCHANGED tp_chunk
           ELSE /\ tp_pc' = "split"
                /\ tp_chunk' = chunkSize
                /\ UNCHANGED tp_result

TrimEntry ==
    /\ tp_pc = "entry"
    /\ IF tp_prompt = << >>
       THEN /\ tp_pc' = "done"
            /\ tp_result' = << >>
            /\ UNCHANGED <<tp_tokens, tp_chunk>>
       ELSE \E length \in TokenCounts(tp_prompt) : TrimEntryStep(length)
    /\ UNCHANGED <<tp_text, tp_ctx, tp_prompt, tp_depth, tp_spin>>
    /\ UNCHANGED walkVars
    /\ UNCHANGED <<splitVars, estVars>>

\* new RecursiveCharacterTextSplitter({chunkSize, chunkOverlap: 0}).splitText(prompt)
TrimSplitter == SplitText(tp_prompt, NewSplitter(tp_chunk, 0))

\* lines 114-126 when splitText returns: the recursive call on the first chunk,
\* or on the hard cut when the first chunk is as long as the prompt
TrimSplit ==
    /\ tp_pc = "split"
    /\ \E r \in {TrimSplitter} :
          /\ ~r.div
          /\ \E trimmedPrompt \in {IF r.chunks = << >> THEN << >> ELSE r.chunks[1]} :
                tp_prompt' = IF Len(trimmedPrompt) = Len(tp_prompt)
                             THEN Slice(tp_prompt, 0, tp_chunk)
                             ELSE trimmedPrompt
    /\ tp_pc' = "entry"
    /\ tp_depth' = tp_depth + 1
    /\ UNCHANGED <<tp_text, tp_ctx, tp_tokens, tp_chunk, tp_spin, tp_result>>
    /\ UNCHANGED walkVars
    /\ UNCHANGED <<splitVars, estVars>>

\* line 118 when splitText does not return: one more iteration of the
\* splitBySize loop, after which the call is where it was
TrimSpin ==
    /\ tp_pc = "split"
    /\ TrimSplitter.div
    /\ tp_spin' = 1 - tp_spin
    /\ UNCHANGED <<tp_pc, tp_text, tp_ctx, tp_prompt, tp_depth, tp_tokens, tp_chunk,
                   tp_result>>
    /\ UNCHANGED walkVars
    /\ UNCHANGED <<splitVars, estVars>>

(***************************************************************************)
(* Inputs of trimPrompt.                                                   *)
(***************************************************************************)
Run(n) == [i \in 1..n |-> "x"]

RunLens == {70 * k : k \in 1..MaxRunK}

Seps == {<<"\n", "\n">>, <<"\n">>, <<" ">>}

TrimTexts ==
    {Run(n) : n \in {0, 1} \cup RunLens}
    \cup {Run(a) \o s \o Run(b) : a \in {0, 1, 70, 210}, b \in RunLens, s \in Seps}

Budgets == {40, 90, 200, 330}

TrimInit ==
    /\ tp_pc = "entry"
    /\ tp_text \in TrimTexts
    /\ tp_ctx \in Budgets
    /\ tp_prompt = tp_text
    /\ tp_depth = 0
    /\ tp_tokens = -1
    /\ tp_chunk = 0
    /\ tp_spin = 0
    /\ tp_result = << >>
    /\ NoWalk
    /\ NoSplit
    /\ NoEstimate

TrimNext == TrimEntry \/ TrimSplit \/ TrimSpin

TrimSpec == TrimInit /\ [][TrimNext]_vars

\* trimPrompt is synchronous code: while a step of it is possible, one is taken
FairTrimSpec == TrimSpec /\ WF_vars(TrimNext)

(***************************************************************************)
(* splitText called on its own, on a splitter built from any options.      *)
(***************************************************************************)
MaxSplitLen == 5    \* bound: longest text handed to splitText on its own

MaxChunk == 4       \* bound: largest options.chunkSize

MaxOverlap == 3     \* bound: largest options.chunkOverlap

Alphabet == {"a", "b", "\n", " "}

\* the text of the documented scenario
ScenarioText == <<"a", "\n", "\n", "b", "\n", "\n", "c">>

\* a text in which a separator comes twice in a row
GappedText == <<"a", " ", " ", "b", " ", "c">>

SplitTexts ==
    UNION {[1..n -> Alphabet] : n \in 0..MaxSplitLen} \cup {ScenarioText, GappedText}

\* trimPrompt is not under way
NoTrim ==
    /\ tp_pc = "idle"
    /\ tp_text = << >>
    /\ tp_ctx = 0
    /\ tp_prompt = << >>
    /\ tp_depth = 0
    /\ tp_tokens = -1
    /\ tp_chunk = 0
    /\ tp_spin = 0
    /\ tp_result = << >>

SplitInit ==
    /\ sp_pc = "call"
    /\ sp_text \in SplitTexts
    /\ sp_size \in 1..MaxChunk
    /\ sp_overlap \in 0..MaxOverlap
    /\ sp_chunks = << >>
    /\ sp_spin = 0
    /\ NoTrim
    /\ NoWalk
    /\ NoEstimate

\* new RecursiveCharacterTextSplitter({chunkSize, chunkOverlap}).splitText(text)
SplitCallValue == SplitText(sp_text, NewSplitter(sp_size, sp_overlap))

\* splitText returns
SplitReturns ==
    /\ sp_pc = "call"
    /\ \E r \in {SplitCallValue} :
          /\ ~r.div
          /\ sp_chunks' = r.chunks
    /\ sp_pc' = "done"
    /\ UNCHANGED <<sp_text, sp_size, sp_overlap, sp_spin>>
    /\ UNCHANGED <<trimVars, walkVars, estVars>>

\* splitText is in a splitBySize loop that cannot exit: one more iteration
SplitSpin ==
    /\ sp_pc = "call"
    /\ SplitCallValue.div
    /\ sp_spin' = 1 - sp_spin
    /\ UNCHANGED <<sp_pc, sp_text, sp_size, sp_overlap, sp_chunks>>
    /\ UNCHANGED <<trimVars, walkVars, estVars>>

SplitNext == SplitReturns \/ SplitSpin

SplitSpec == SplitInit /\ [][SplitNext]_vars

\* splitText is synchronous code: while a step of it is possible, one is taken
FairSplitSpec == SplitSpec /\ WF_vars(SplitNext)

(***************************************************************************)
(* The decision tree.  A node object is named by its position: the path of *)
(* child indices from the root.  Ids are values <<kind, tag>>: a fresh     *)
(* uuid is tagged by the place that drew it, a string written by the       *)
(* generator by a number.                                                  *)
(***************************************************************************)
Root == << >>

Parent(p) == SubSeq(p, 1, Len(p) - 1)

Uuid(p) == <<"uuid", p>>

GenId(n) == <<"gen", <<n>>>>

EmptyStr == <<"str", << >>>>

Null == <<"null", << >>>>

Undefined == <<"undefined", << >>>>

\* the uuid drawn at the top of generateInitialDecisionTree
RootNodeId == Uuid(<<0>>)

RECURSIVE Pow(_, _)
Pow(b, e) == IF e <= 0 THEN 1 ELSE b * Pow(b, e - 1)

RECURSIVE MergeAll(_, _)
MergeAll(fs, k) == IF k > Len(fs) THEN << >> ELSE fs[k] @@ MergeAll(fs, k + 1)

\* normalizeNode: the node objects made from a generated node that lands at
\* position p, its nested children included
RECURSIVE NormalizeNode(_, _, _)
NormalizeNode(node, defaultParentId, p) ==
    LET self == [id |-> IF node.id \in {Undefined, EmptyStr} THEN Uuid(p) ELSE node.id,
                 parentId |-> IF node.parentId # Undefined THEN node.parentId
                              ELSE defaultParentId,
                 children |-> [i \in 1..Len(node.children) |-> p \o <<i>>]]
    IN  (p :> self)
        @@ MergeAll([i \in 1..Len(node.children) |->
                        NormalizeNode(node.children[i], node.id, p \o <<i>>)], 1)

\* the zod schema of an option of the initial tree / of a consequence: the
\* defaults for the fields the generator left out
ParseChild(raw, parentIdDefault) ==
    [id |-> IF raw.id = Undefined THEN EmptyStr ELSE raw.id,
     parentId |-> IF raw.parentId = Undefined THEN parentIdDefault ELSE raw.parentId,
     children |-> raw.children]

\* the zod schema of the initial tree's root
ParseRoot(raw) ==
    [id |-> IF raw.id = Undefined THEN RootNodeId ELSE raw.id,
     parentId |-> Null,
     children |-> [i \in 1..Len(raw.children) |-> ParseChild(raw.children[i], RootNodeId)]]

\* an estimate that never looks at the children a node has
CalculateTotalBranchesBlind(t, p, depth, maxDepth, breadth) ==
    IF depth >= maxDepth THEN 1
    ELSE 1 + breadth * Pow(breadth, maxDepth - depth - 1)

\* an estimate that leaves out the factor breadth
RECURSIVE CalculateTotalBranchesNoFactor(_, _, _, _, _)
CalculateTotalBranchesNoFactor(t, p, depth, maxDepth, breadth) ==
    IF depth >= maxDepth THEN 1
    ELSE IF Len(t[p].children) > 0
    THEN LET sub == [i \in 1..Len(t[p].children) |->
                        CalculateTotalBranchesNoFactor(t, t[p].children[i], depth + 1,
                                                       maxDepth, breadth)]
             Sum[k \in 0..Len(sub)] == IF k = 0 THEN 0 ELSE Sum[k - 1] + sub[k]
         IN  1 + Sum[Len(sub)]
    ELSE 1 + Pow(breadth, maxDepth - depth - 1)


\* an estimate that does not count the node itself
RECURSIVE CalculateTotalBranchesNoSelf(_, _, _, _, _)
CalculateTotalBranchesNoSelf(t, p, depth, maxDepth, breadth) ==
    IF depth >= maxDepth THEN 1
    ELSE IF Len(t[p].children) > 0
    THEN LET sub == [i \in 1..Len(t[p].children) |->
                        CalculateTotalBranchesNoSelf(t, t[p].children[i], depth + 1,
                                                     maxDepth, breadth)]
             Sum[k \in 0..Len(sub)] == IF k = 0 THEN 0 ELSE Sum[k - 1] + sub[k]
         IN  Sum[Len(sub)]
    ELSE breadth * Pow(breadth, maxDepth - depth - 1)


\* calculateTotalBranches on the node at position p of tree t
RECURSIVE CalculateTotalBranches(_, _, _, _, _)
CalculateTotalBranches(t, p, depth, maxDepth, breadth) ==
    IF depth >= maxDepth THEN 1
    ELSE IF Len(t[p].children) > 0
    THEN LET sub == [i \in 1..Len(t[p].children) |->
                        CalculateTotalBranches(t, t[p].children[i], depth + 1,
                                               maxDepth, breadth)]
             Sum[k \in 0..Len(sub)] == IF k = 0 THEN 0 ELSE Sum[k - 1] + sub[k]
         IN  1 + Sum[Len(sub)]
    ELSE 1 + breadth * Pow(breadth, maxDepth - depth - 1)

\* the snapshot handed to onProgress (currentBranch, a text built from the
\* generator's descriptions, is left out)
Snapshot(depth, count) ==
    [currentDepth |-> depth, totalDepth |-> ad_in.depth,
     totalBranches |-> total, completedBranches |-> count]

\* the percentage CLIService.run's onProgress prints for a snapshot
PercentComplete(progress) ==
    (progress.completedBranches * 100) \div progress.totalBranches


(***************************************************************************)
(* What the generator may answer.                                          *)
(***************************************************************************)
MaxDepth == 2       \* bound: largest analysis depth

MaxBreadth == 2     \* bound: largest analysis breadth

MaxTreeNodes == 7   \* bound: size of the full tree of the largest run

MaxLongTreeNodes == 3   \* bound: the same, for runs whose prompt needs trimming

Shapes == {"plain", "ids", "pid", "nested"}

\* the i-th node of an answer: all optional fields left out; an id of the
\* generator's own; a parentId of the generator's own; a nested child
GenChild(shape, i) ==
    [id |-> IF shape = "ids" THEN GenId(i) ELSE Undefined,
     parentId |-> IF shape = "pid" THEN GenId(0) ELSE Undefined,
     children |-> IF shape = "nested"
                  THEN << [id |-> Undefined, parentId |-> Undefined, children |-> << >>] >>
                  ELSE << >>]

\* answers within the schema's .max(breadth)
GenChildren(breadth) ==
    {<< >>} \cup {[i \in 1..k |-> GenChild(shape, i)] : k \in 1..breadth, shape \in Shapes}

GenRootIds == {Undefined, GenId(9)}

RECURSIVE FullTreeSize(_, _)
FullTreeSize(breadth, depth) ==
    IF depth = 0 THEN 1 ELSE 1 + breadth * FullTreeSize(breadth, depth - 1)

\* the prompt of expandDecisionNode and of extractKeyInsights: the problem
\* inside the fixed text, which is cut down to a line before and a line after
PromptOf(problem) == <<"x", "\n">> \o problem \o <<"\n", "x">>

\* a problem and a context size: a prompt within budget whatever the
\* tokenizer, one the splitter can cut, one it cannot
WalkInputs ==
    {[problem |-> Run(1), ctx |-> 200],
     [problem |-> Run(3 * 70), ctx |-> 200],
     [problem |-> Run(5 * 70), ctx |-> 330]}

(***************************************************************************)
(* calculateTotalBranches called on its own, on any node and arguments.    *)
(***************************************************************************)
\* n nodes without children
Leaves(n) == [i \in 1..n |-> << >>]

\* the children a first-level node may have: leaves, the first of which may
\* have children of its own
SecondLevels ==
    {Leaves(n) : n \in 0..MaxBreadth}
    \cup {<<Leaves(g)>> \o Leaves(n) : g \in 1..MaxBreadth, n \in 0..(MaxBreadth - 1)}

\* the children of the node argument, as nested sequences
EstShapes == UNION {[1..k -> SecondLevels] : k \in 0..MaxBreadth}

\* the node object of a shape, as the schema hands it to normalizeNode
RECURSIVE NodeOfShape(_)
NodeOfShape(shape) ==
    [id |-> Undefined, parentId |-> Undefined,
     children |-> [i \in 1..Len(shape) |-> NodeOfShape(shape[i])]]

EstimateInit ==
    /\ est_pc = "call"
    /\ \E shape \in EstShapes : est_node = NormalizeNode(NodeOfShape(shape), Null, Root)
    /\ est_args \in [depth : 0..(MaxDepth + 1), maxDepth : 0..(MaxDepth + 1),
                     breadth : 0..(MaxBreadth + 1)]
    /\ est_result = -1
    /\ NoTrim
    /\ NoWalk
    /\ NoSplit

\* calculateTotalBranches(node, depth, maxDepth, breadth) returns
EstimateReturns ==
    /\ est_pc = "call"
    /\ est_result' = CalculateTotalBranches(est_node, Root, est_args.depth,
                                            est_args.maxDepth, est_args.breadth)
    /\ est_pc' = "done"
    /\ UNCHANGED <<est_node, est_args>>
    /\ UNCHANGED <<trimVars, walkVars, splitVars>>

EstimateNext == EstimateReturns

EstimateSpec == EstimateInit /\ [][EstimateNext]_vars


(***************************************************************************)
(* analyzeDecision.  JavaScript runs one piece of synchronous code at a    *)
(* time: a continuation (an answer of the generator, a settled promise)    *)
(* starts only when no children.map(...) and no trimPrompt is under way.   *)
(***************************************************************************)
\* trimPrompt is called on text
TrimStart(text) ==
    /\ tp_pc' = "entry"
    /\ tp_text' = text
    /\ tp_prompt' = text
    /\ tp_depth' = 0
    /\ tp_tokens' = -1
    /\ tp_chunk' = 0
    /\ tp_result' = << >>
    /\ UNCHANGED <<tp_ctx, tp_spin>>

\* the caller takes the value trimPrompt returned
TrimReturn ==
    /\ tp_pc' = "idle"
    /\ tp_text' = << >>
    /\ tp_prompt' = << >>
    /\ tp_depth' = 0
    /\ tp_tokens' = -1
    /\ tp_chunk' = 0
    /\ tp_result' = << >>
    /\ UNCHANGED <<tp_ctx, tp_spin>>

Quiet == run = NoRun /\ tp_pc = "idle"

\* analyzeDecision has called generateInitialDecisionTree, whose generation
\* call is in flight
Init ==
    /\ \E w \in WalkInputs, d \in 0..MaxDepth, b \in 1..MaxBreadth :
          /\ FullTreeSize(b, d) <= MaxTreeNodes
          /\ Len(w.problem) > 1 => FullTreeSize(b, d) <= MaxLongTreeNodes
          /\ ad_in = [problem |-> w.problem, depth |-> d, breadth |-> b]
          /\ tp_ctx = w.ctx
    /\ ad_pc = "init"
    /\ tree = << >>
    /\ pc = << >>
    /\ calls = << >>
    /\ run = NoRun
    /\ total = -1
    /\ completed = 0
    /\ events = << >>
    /\ warned = {}
    /\ tp_pc = "idle"
    /\ tp_text = << >>
    /\ tp_prompt = << >>
    /\ tp_depth = 0
    /\ tp_tokens = -1
    /\ tp_chunk = 0
    /\ tp_spin = 0
    /\ tp_result = << >>
    /\ NoSplit
    /\ NoEstimate

\* an initial generation whose failure is logged and passed over
GenerateInitialFailsQuietly ==
    /\ ad_pc = "init"
    /\ ad_pc' = "insights"
    /\ UNCHANGED <<ad_in, tree, pc, calls, run, total, completed, events, warned>>
    /\ UNCHANGED trimVars
    /\ UNCHANGED <<splitVars, estVars>>

\* generateInitialDecisionTree: the generation call fails; nothing catches
\* the error in generateInitialDecisionTree or in analyzeDecision
GenerateInitialFails ==
    /\ ad_pc = "init"
    /\ ad_pc' = "failed"
    /\ UNCHANGED <<ad_in, tree, pc, calls, run, total, completed, events, warned>>
    /\ UNCHANGED trimVars
    /\ UNCHANGED <<splitVars, estVars>>

\* generateInitialDecisionTree returns (lines 159-163) and analyzeDecision
\* goes on to the estimate and the counter (lines 518-520)
GenerateInitialReturns ==
    /\ ad_pc = "init"
    /\ \E id \in GenRootIds, children \in GenChildren(ad_in.breadth) :
          \E t \in {NormalizeNode(ParseRoot([id |-> id, children |-> children]),
                                  Null, Root)} :
             /\ tree' = t
             /\ pc' = [p \in DOMAIN t |-> "new"]
             /\ calls' = [p \in DOMAIN t |-> 0]
             /\ total' = CalculateTotalBranches(t, Root, 0, ad_in.depth, ad_in.breadth)
    /\ completed' = 0
    /\ ad_pc' = "walk"
    /\ UNCHANGED <<ad_in, run, events, warned>>
    /\ UNCHANGED trimVars
    /\ UNCHANGED <<splitVars, estVars>>

\* analyzeDecisionTree is being called on p: by analyzeDecision on the root,
\* by the parent's children.map(...) on the others, in the children's order
IsNext(p) ==
    /\ tp_pc = "idle"
    /\ IF p = Root
       THEN ad_pc = "walk" /\ run = NoRun
       ELSE run.next >= 1 /\ run.node = Parent(p) /\ tree[run.node].children[run.next] = p

\* the call on p has run up to its first await or its return: the map moves on
\* to the next child, and past the last one the parent awaits Promise.all
Suspend(p, at) ==
    IF p = Root
    THEN /\ pc' = [pc EXCEPT ![p] = at]
         /\ UNCHANGED run
    ELSE IF run.next = Len(tree[run.node].children)
    THEN /\ pc' = [pc EXCEPT ![p] = at, ![run.node] = "join"]
         /\ run' = NoRun
    ELSE /\ pc' = [pc EXCEPT ![p] = at]
         /\ run' = [run EXCEPT !.next = @ + 1]

\* a depth test that lets the walk go one level further
AtMaxDepthStrict(depth, maxDepth) == depth > maxDepth

\* the test that ends the recursion: line 289
AtMaxDepth(depth, maxDepth) == depth >= maxDepth

\* a walk that counts the completion of the first-level nodes as well
IsRootDepthShallow(depth) == depth <= 1

\* a walk that never counts the root: line 333 with a test that never holds
IsRootDepthNever(depth) == depth < 0

\* the root's completion counts as a branch: line 333
IsRootDepth(depth) == depth = 0

\* a terminal step that reports the counter as it was before the increment
AnalyzeTerminalStale(p) ==
    /\ pc[p] = "new" /\ IsNext(p)
    /\ AtMaxDepth(Len(p), ad_in.depth)
    /\ completed' = completed + 1
    /\ events' = Append(events, Snapshot(Len(p), completed))
    /\ Suspend(p, "done")
    /\ ad_pc' = IF p = Root THEN "insights" ELSE ad_pc
    /\ UNCHANGED <<ad_in, tree, calls, total, warned>>
    /\ UNCHANGED trimVars
    /\ UNCHANGED <<splitVars, estVars>>

\* analyzeDecisionTree lines 289-301: a node at the depth limit
AnalyzeTerminal(p) ==
    /\ pc[p] = "new" /\ IsNext(p)
    /\ AtMaxDepth(Len(p), ad_in.depth)
    /\ completed' = completed + 1
    /\ events' = Append(events, Snapshot(Len(p), completed + 1))
    /\ Suspend(p, "done")
    /\ ad_pc' = IF p = Root THEN "insights" ELSE ad_pc
    /\ UNCHANGED <<ad_in, tree, calls, total, warned>>
    /\ UNCHANGED trimVars
    /\ UNCHANGED <<splitVars, estVars>>

\* an expansion that issues its generation call although the node has children
ExpandSkipCalls(p) ==
    /\ pc[p] = "new" /\ IsNext(p)
    /\ ~AtMaxDepth(Len(p), ad_in.depth)
    /\ Len(tree[p].children) > 0
    /\ calls' = [calls EXCEPT ![p] = @ + 1]
    /\ Suspend(p, "call")
    /\ UNCHANGED <<ad_pc, ad_in, tree, total, completed, events, warned>>
    /\ UNCHANGED trimVars
    /\ UNCHANGED <<splitVars, estVars>>

\* expandDecisionNode lines 191-193: the node has children already
ExpandSkip(p) ==
    /\ pc[p] = "new" /\ IsNext(p)
    /\ ~AtMaxDepth(Len(p), ad_in.depth)
    /\ Len(tree[p].children) > 0
    /\ Suspend(p, "expanded")
    /\ UNCHANGED <<ad_pc, ad_in, tree, calls, total, completed, events, warned>>
    /\ UNCHANGED trimVars
    /\ UNCHANGED <<splitVars, estVars>>

\* an expansion that goes on one level past the depth limit
ExpandTrimOneDeeper(p) ==
    /\ pc[p] = "new" /\ IsNext(p)
    /\ Len(p) <= ad_in.depth
    /\ Len(tree[p].children) = 0
    /\ pc' = [pc EXCEPT ![p] = "trim"]
    /\ TrimStart(PromptOf(ad_in.problem))
    /\ UNCHANGED <<ad_pc, ad_in, tree, calls, run, total, completed, events, warned>>
    /\ UNCHANGED <<splitVars, estVars>>

\* expandDecisionNode lines 195-201: the prompt is built and handed to trimPrompt
ExpandTrim(p) ==
    /\ pc[p] = "new" /\ IsNext(p)
    /\ ~AtMaxDepth(Len(p), ad_in.depth)
    /\ Len(tree[p].children) = 0
    /\ pc' = [pc EXCEPT ![p] = "trim"]
    /\ TrimStart(PromptOf(ad_in.problem))
    /\ UNCHANGED <<ad_pc, ad_in, tree, calls, run, total, completed, events, warned>>
    /\ UNCHANGED <<splitVars, estVars>>

\* expandDecisionNode line 198: trimPrompt has returned, the generation call
\* is issued and awaited
ExpandCall(p) ==
    /\ pc[p] = "trim" /\ tp_pc = "done"
    /\ calls' = [calls EXCEPT ![p] = @ + 1]
    /\ Suspend(p, "call")
    /\ TrimReturn
    /\ UNCHANGED <<ad_pc, ad_in, tree, total, completed, events, warned>>
    /\ UNCHANGED <<splitVars, estVars>>

\* a generation failure that is logged and thrown again
ExpandFailsLoudly(p) ==
    /\ pc[p] = "call" /\ Quiet
    /\ ad_pc' = "failed"
    /\ warned' = warned \cup {p}
    /\ UNCHANGED <<ad_in, tree, pc, calls, run, total, completed, events>>
    /\ UNCHANGED trimVars
    /\ UNCHANGED <<splitVars, estVars>>

\* expandDecisionNode lines 243-246: the generation call fails, the error is
\* logged and the node returned as it is
ExpandFails(p) ==
    /\ pc[p] = "call" /\ Quiet
    /\ pc' = [pc EXCEPT ![p] = "expanded"]
    /\ warned' = warned \cup {p}
    /\ UNCHANGED <<ad_pc, ad_in, tree, calls, run, total, completed, events>>
    /\ UNCHANGED trimVars
    /\ UNCHANGED <<splitVars, estVars>>

\* an answer whose nodes are put under the node in the opposite order
ExpandReturnsReversed(p) ==
    /\ pc[p] = "call" /\ Quiet
    /\ \E consequences \in GenChildren(ad_in.breadth) :
          \E made \in {MergeAll([i \in 1..Len(consequences) |->
                          NormalizeNode(ParseChild(consequences[i], tree[p].id),
                                        tree[p].id, p \o <<i>>)], 1)} :
             /\ tree' = made @@ [tree EXCEPT ![p].children =
                                    [i \in 1..Len(consequences) |->
                                        p \o <<Len(consequences) + 1 - i>>]]
             /\ pc' = [q \in DOMAIN made |-> "new"] @@ [pc EXCEPT ![p] = "expanded"]
             /\ calls' = [q \in DOMAIN made |-> 0] @@ calls
    /\ UNCHANGED <<ad_pc, ad_in, run, total, completed, events, warned>>
    /\ UNCHANGED trimVars
    /\ UNCHANGED <<splitVars, estVars>>


\* expandDecisionNode lines 237-242: the generation call answers
ExpandReturns(p) ==
    /\ pc[p] = "call" /\ Quiet
    /\ \E consequences \in GenChildren(ad_in.breadth) :
          \E made \in {MergeAll([i \in 1..Len(consequences) |->
                          NormalizeNode(ParseChild(consequences[i], tree[p].id),
                                        tree[p].id, p \o <<i>>)], 1)} :
             /\ tree' = made @@ [tree EXCEPT ![p].children =
                                    [i \in 1..Len(consequences) |-> p \o <<i>>]]
             /\ pc' = [q \in DOMAIN made |-> "new"] @@ [pc EXCEPT ![p] = "expanded"]
             /\ calls' = [q \in DOMAIN made |-> 0] @@ calls
    /\ UNCHANGED <<ad_pc, ad_in, run, total, completed, events, warned>>
    /\ UNCHANGED trimVars
    /\ UNCHANGED <<splitVars, estVars>>

\* analyzeDecisionTree lines 304-330: expandDecisionNode's promise has
\* settled; the children are mapped to their analyses
FanOut(p) ==
    /\ pc[p] = "expanded" /\ Quiet
    /\ IF tree[p].children = << >>
       THEN /\ pc' = [pc EXCEPT ![p] = "join"]
            /\ UNCHANGED run
       ELSE /\ pc' = [pc EXCEPT ![p] = "map"]
            /\ run' = [node |-> p, next |-> 1]
    /\ UNCHANGED <<ad_pc, ad_in, tree, calls, total, completed, events, warned>>
    /\ UNCHANGED trimVars
    /\ UNCHANGED <<splitVars, estVars>>

\* the value of the promise analyzeDecisionTree returned for q: the node itself
Analyzed(q) == q

\* a fan-in that does not wait for the children
FanInEarly(p) ==
    /\ pc[p] = "join" /\ Quiet
    /\ tree' = [tree EXCEPT ![p].children =
                   [i \in 1..Len(@) |-> Analyzed(tree[p].children[i])]]
    /\ IF IsRootDepth(Len(p))
       THEN /\ completed' = completed + 1
            /\ events' = Append(events, Snapshot(Len(p), completed + 1))
       ELSE UNCHANGED <<completed, events>>
    /\ pc' = [pc EXCEPT ![p] = "done"]
    /\ ad_pc' = IF p = Root THEN "insights" ELSE ad_pc
    /\ UNCHANGED <<ad_in, calls, run, total, warned>>
    /\ UNCHANGED trimVars
    /\ UNCHANGED <<splitVars, estVars>>

\* a fan-in that assigns the analysed children in the order opposite to theirs
FanInReversed(p) ==
    /\ pc[p] = "join" /\ Quiet
    /\ \A i \in 1..Len(tree[p].children) : pc[tree[p].children[i]] = "done"
    /\ tree' = [tree EXCEPT ![p].children =
                   [i \in 1..Len(@) |->
                       Analyzed(tree[p].children[Len(tree[p].children) + 1 - i])]]
    /\ IF IsRootDepth(Len(p))
       THEN /\ completed' = completed + 1
            /\ events' = Append(events, Snapshot(Len(p), completed + 1))
       ELSE UNCHANGED <<completed, events>>
    /\ pc' = [pc EXCEPT ![p] = "done"]
    /\ ad_pc' = IF p = Root THEN "insights" ELSE ad_pc
    /\ UNCHANGED <<ad_in, calls, run, total, warned>>
    /\ UNCHANGED trimVars
    /\ UNCHANGED <<splitVars, estVars>>

\* a fan-in that counts the completion of every node, not of the root only
FanInCountsEveryNode(p) ==
    /\ pc[p] = "join" /\ Quiet
    /\ \A i \in 1..Len(tree[p].children) : pc[tree[p].children[i]] = "done"
    /\ tree' = [tree EXCEPT ![p].children =
                   [i \in 1..Len(@) |-> Analyzed(tree[p].children[i])]]
    /\ completed' = completed + 1
    /\ events' = Append(events, Snapshot(Len(p), completed + 1))
    /\ pc' = [pc EXCEPT ![p] = "done"]
    /\ ad_pc' = IF p = Root THEN "insights" ELSE ad_pc
    /\ UNCHANGED <<ad_in, calls, run, total, warned>>
    /\ UNCHANGED trimVars
    /\ UNCHANGED <<splitVars, estVars>>


\* analyzeDecisionTree lines 330-346: every child's analysis has settled
FanIn(p) ==
    /\ pc[p] = "join" /\ Quiet
    /\ \A i \in 1..Len(tree[p].children) : pc[tree[p].children[i]] = "done"
    /\ tree' = [tree EXCEPT ![p].children =
                   [i \in 1..Len(@) |-> Analyzed(tree[p].children[i])]]
    /\ IF IsRootDepth(Len(p))
       THEN /\ completed' = completed + 1
            /\ events' = Append(events, Snapshot(Len(p), completed + 1))
       ELSE UNCHANGED <<completed, events>>
    /\ pc' = [pc EXCEPT ![p] = "done"]
    /\ ad_pc' = IF p = Root THEN "insights" ELSE ad_pc
    /\ UNCHANGED <<ad_in, calls, run, total, warned>>
    /\ UNCHANGED trimVars
    /\ UNCHANGED <<splitVars, estVars>>

\* extractKeyInsights lines 426-430: the prompt is handed to trimPrompt
InsightsTrim ==
    /\ ad_pc = "insights" /\ Quiet
    /\ ad_pc' = "insights_trim"
    /\ TrimStart(PromptOf(ad_in.problem))
    /\ UNCHANGED <<ad_in, tree, pc, calls, run, total, completed, events, warned>>
    /\ UNCHANGED <<splitVars, estVars>>

\* extractKeyInsights line 427: the generation call is issued and awaited
InsightsCall ==
    /\ ad_pc = "insights_trim" /\ tp_pc = "done"
    /\ ad_pc' = "insights_call"
    /\ TrimReturn
    /\ UNCHANGED <<ad_in, tree, pc, calls, run, total, completed, events, warned>>
    /\ UNCHANGED <<splitVars, estVars>>

\* extractKeyInsights lines 449-454 and analyzeDecision lines 539-542: the
\* call answers or fails, and either way analyzeDecision returns the tree
InsightsReturn ==
    /\ ad_pc = "insights_call"
    /\ ad_pc' = "returned"
    /\ UNCHANGED <<ad_in, tree, pc, calls, run, total, completed, events, warned>>
    /\ UNCHANGED trimVars
    /\ UNCHANGED <<splitVars, estVars>>

Next ==
    \/ GenerateInitialReturns
    \/ GenerateInitialFails
    \/ \E p \in DOMAIN tree : AnalyzeTerminal(p)
    \/ \E p \in DOMAIN tree : ExpandSkip(p)
    \/ \E p \in DOMAIN tree : ExpandTrim(p)
    \/ \E p \in DOMAIN tree : ExpandCall(p)
    \/ \E p \in DOMAIN tree : ExpandReturns(p)
    \/ \E p \in DOMAIN tree : ExpandFails(p)
    \/ \E p \in DOMAIN tree : FanOut(p)
    \/ \E p \in DOMAIN tree : FanIn(p)
    \/ InsightsTrim
    \/ InsightsCall
    \/ InsightsReturn
    \/ TrimEntry
    \/ TrimSplit
    \/ TrimSpin

Spec == Init /\ [][Next]_vars

\* whatever can run does run: synchronous code goes on, settled promises have
\* their continuations run, and the generator answers every call
FairSpec == Spec /\ WF_vars(Next)

\* analyzeDecisionTree has returned on the root
WalkReturned == ad_pc \in {"insights", "insights_trim", "insights_call", "returned"}

(***************************************************************************)
(* Claims about the walk.                                                  *)
(***************************************************************************)
MaxDepthOf == ad_in.depth

BreadthOf == ad_in.breadth

\* the nodes the walk met at the depth limit
TerminalNodes == {p \in DOMAIN tree : Len(p) = MaxDepthOf}

\* trimPrompt is inside a splitBySize loop that cannot exit
TrimStuck == tp_pc = "split" /\ TrimSplitter.div

\* every generation call was answered with exactly breadth children that
\* carry no children of their own, and none failed
FullStub ==
    /\ warned = {}
    /\ \A p \in DOMAIN tree :
          /\ Len(p) < Max(MaxDepthOf, 1) => Len(tree[p].children) = BreadthOf
          /\ Len(p) >= Max(MaxDepthOf, 1) => tree[p].children = << >>
          /\ (0 < Len(p) /\ Len(p) < MaxDepthOf) => calls[p] = 1

\* C1: a walk started on a root with a finite maxDepth eventually completes
\* and returns the root, whatever the generator answers.
C1_WalkTerminates == (ad_pc = "walk") ~> WalkReturned

\* C2 as stated: with a generator that answers every call with exactly B
\* children, the final completedBranches is 1 + B + ... + B^maxDepth.
C2_CountIsGeometricSum ==
    (WalkReturned /\ FullStub) => completed = FullTreeSize(BreadthOf, MaxDepthOf)

\* C2 amended: with such a generator the final completedBranches, which is
\* also the last value reported, is B^maxDepth + 1 when maxDepth >= 1 and 1
\* when maxDepth = 0.
C2_CountIsLeavesPlusRoot ==
    (WalkReturned /\ FullStub)
    => /\ completed = IF MaxDepthOf = 0 THEN 1 ELSE Pow(BreadthOf, MaxDepthOf) + 1
       /\ events[Len(events)].completedBranches = completed

\* a walk of depth 2 and breadth 2 on a full tree has returned
C2_Witness ==
    /\ WalkReturned /\ FullStub
    /\ MaxDepthOf = 2 /\ BreadthOf = 2
    /\ completed = 5

\* C3: no node of the returned tree is deeper than maxDepth.
C3_NoNodeBeyondMaxDepth ==
    WalkReturned => \A p \in DOMAIN tree : Len(p) <= MaxDepthOf

\* C4: in every tree built and grown, each non-root node's parentId is the
\* id of its parent, and the root's parentId is null.
C4_ParentIdIsParentsId ==
    \A p \in DOMAIN tree :
        tree[p].parentId = IF p = Root THEN Null ELSE tree[Parent(p)].id

\* C5 as stated: when the walk returns, completedBranches is the number of
\* terminal nodes of the returned tree, whatever the generator answered.
C5_CountIsTerminalNodes ==
    WalkReturned => completed = Cardinality(TerminalNodes)

\* C5 amended: when the walk returns, completedBranches is the number of
\* nodes at depth maxDepth of the returned tree, plus one for the root's own
\* completion when maxDepth >= 1.
C5_CountIsTerminalNodesPlusRoot ==
    WalkReturned
    => completed = Cardinality(TerminalNodes) + IF MaxDepthOf >= 1 THEN 1 ELSE 0

\* a walk of depth 2 with a failed expansion next to an answered one has returned
C5_Witness ==
    /\ WalkReturned /\ MaxDepthOf = 2
    /\ warned # {}
    /\ Cardinality(TerminalNodes) >= 1
    /\ completed = Cardinality(TerminalNodes) + 1

\* a node whose expansion failed keeps no children, its call was issued
\* once, and its analysis goes on; the walk is not failed
C6_FailedNodeKept ==
    /\ \A p \in warned :
          /\ tree[p].children = << >>
          /\ calls[p] = 1
          /\ pc[p] \in {"expanded", "join", "done"}
    /\ warned # {} => ad_pc # "failed"

\* the step in which an expansion fails touches nothing but that node's
\* own position in the walk and the log
C6_FailureStep ==
    \A p \in DOMAIN tree :
        (p \notin warned /\ p \in warned')
        => /\ pc' = [pc EXCEPT ![p] = "expanded"]
           /\ UNCHANGED <<ad_pc, ad_in, tree, calls, run, total, completed, events>>

\* C6: a failing generation call in the expansion of a node is absorbed: the
\* node is kept with no children, no other node, counter or snapshot is
\* touched, the walk is not failed and, unless trimPrompt gets stuck, it
\* returns the tree.
C6_ExpansionFailureAbsorbed ==
    /\ []C6_FailedNodeKept
    /\ [][C6_FailureStep]_vars
    /\ (warned # {}) ~> (WalkReturned \/ TrimStuck)

\* the walk returned a tree in which one expansion failed and another
\* node's expansion was answered with children
C6_Witness ==
    /\ WalkReturned
    /\ \E p \in warned : tree[p].children = << >> /\ pc[p] = "done"
    /\ \E q \in DOMAIN tree \ warned : calls[q] = 1 /\ tree[q].children # << >>

\* after a failed initial generation nothing was estimated, expanded,
\* reported or built
C7_NothingAfterFailure ==
    ad_pc = "failed"
    => /\ tree = << >> /\ pc = << >> /\ calls = << >>
       /\ total = -1 /\ completed = 0 /\ events = << >>

\* the initial generation ends in a failed analyzeDecision or in a walk on a
\* generated tree
C7_InitialStep ==
    (ad_pc = "init" /\ ad_pc' # "init")
    => \/ ad_pc' = "failed" /\ tree' = << >>
       \/ ad_pc' = "walk" /\ Root \in DOMAIN tree'

\* C7: a failing initial generation is not absorbed: analyzeDecision fails,
\* and no estimate is computed, no expansion call issued, no snapshot
\* reported and no tree returned.
C7_InitialFailurePropagated ==
    /\ []C7_NothingAfterFailure
    /\ [][C7_InitialStep]_vars

\* analyzeDecision has failed on the initial generation
C7_Witness == ad_pc = "failed" /\ tree = << >> /\ total = -1

(***************************************************************************)
(* Claims about trimPrompt.                                                *)
(***************************************************************************)
\* the outermost call was made on an over-budget text
OverBudget == tp_tokens # -1 /\ tp_tokens > tp_ctx

\* text holds none of the splitter's non-empty separators
NoSeparator(text) ==
    \A k \in 1..Len(DefaultSeparators) :
        DefaultSeparators[k] = << >> \/ ~Includes(text, DefaultSeparators[k])

\* C8: trimPrompt(text, N) terminates for every text and every budget N,
\* whatever the tokenizer reports, separator-free text included: every call
\* eventually returns.
C8_TrimPromptTerminates == <>(tp_pc = "done")

\* C9: trimPrompt(text, N) returns text unchanged whenever the tokenizer
\* reports at most N tokens for it.
C9_IdentityWithinBudget ==
    (tp_pc = "done" /\ tp_tokens # -1 /\ tp_tokens <= tp_ctx) => tp_result = tp_text

\* a call on a text longer than the floor, measured within budget, has returned
C9_Witness ==
    /\ tp_pc = "done"
    /\ tp_tokens # -1 /\ tp_tokens <= tp_ctx
    /\ Len(tp_text) > MIN_CHUNK_SIZE
    /\ tp_result = tp_text

\* C10 as stated: a call on an over-budget text that returns, returns at
\* least MIN_CHUNK_SIZE characters.
C10_ResultAtLeastFloor ==
    (tp_pc = "done" /\ OverBudget) => Len(tp_result) >= MIN_CHUNK_SIZE

\* C10 amended: a call on an over-budget text that holds no separator and
\* has at least MIN_CHUNK_SIZE characters, when it returns, returns at least
\* MIN_CHUNK_SIZE characters.
C10_FloorForLongSeparatorFreeText ==
    (tp_pc = "done" /\ OverBudget /\ NoSeparator(tp_text)
        /\ Len(tp_text) >= MIN_CHUNK_SIZE)
    => Len(tp_result) >= MIN_CHUNK_SIZE

\* an over-budget separator-free text went through the splitter and the
\* call returned through the floor branch of a recursive call
C10_Witness ==
    /\ tp_pc = "done"
    /\ OverBudget /\ NoSeparator(tp_text)
    /\ tp_depth >= 1
    /\ Len(tp_result) = MIN_CHUNK_SIZE
    /\ Len(tp_text) > MIN_CHUNK_SIZE

(***************************************************************************)
(* Claims about splitText.                                                 *)
(***************************************************************************)
IsSeparatorChar(c) == c \in {"\n", " "}

IsTextChar(c) == ~IsSeparatorChar(c)

\* text without its newlines and spaces
Strip(text) == SelectSeq(text, IsTextChar)

RECURSIVE JoinChunks(_, _)
JoinChunks(chunks, k) ==
    IF k > Len(chunks) THEN << >> ELSE chunks[k] \o JoinChunks(chunks, k + 1)

\* the chunks put together after the first overlap characters of every chunk
\* but the first are removed
DeOverlapped(chunks, overlap) ==
    JoinChunks([k \in 1..Len(chunks) |->
                   IF k = 1 THEN chunks[k]
                   ELSE Slice(chunks[k], overlap, Len(chunks[k]))], 1)

\* a is b with some characters left out
RECURSIVE IsSubsequence(_, _, _, _)
IsSubsequence(a, i, b, j) ==
    IF i > Len(a) THEN TRUE
    ELSE IF j > Len(b) THEN FALSE
    ELSE IF a[i] = b[j] THEN IsSubsequence(a, i + 1, b, j + 1)
    ELSE IsSubsequence(a, i, b, j + 1)

C12_NoChunkLongerThanSize ==
    (sp_pc = "done" /\ Len(sp_text) > sp_size /\ ~NoSeparator(sp_text))
    => \A k \in 1..Len(sp_chunks) : Len(sp_chunks[k]) <= sp_size

\* a text with a separator and a stretch too long for a chunk came back
\* cut by size, with overlap
C12_Witness ==
    /\ sp_pc = "done"
    /\ Len(sp_text) > sp_size /\ ~NoSeparator(sp_text)
    /\ Len(Strip(JoinChunks(sp_chunks, 1))) > Len(Strip(sp_text))
    /\ \E k \in 1..Len(sp_chunks) : Len(sp_chunks[k]) = sp_size

\* the first of the configured separators that the text holds, if any
RECURSIVE CoarsestFrom(_, _)
CoarsestFrom(text, k) ==
    IF k > Len(DefaultSeparators) \/ DefaultSeparators[k] = << >> THEN << >>
    ELSE IF Includes(text, DefaultSeparators[k]) THEN DefaultSeparators[k]
    ELSE CoarsestFrom(text, k + 1)

\* the text is two or more non-empty segments around its coarsest separator,
\* each short enough for a chunk and no two neighbours short enough for one
OnePerChunk(text, size) ==
    LET sep == CoarsestFrom(text, 1)
        segments == Split(text, sep)
    IN  /\ sep # << >>
        /\ \A k \in 1..Len(segments) : segments[k] # << >> /\ Len(segments[k]) <= size
        /\ \A k \in 1..(Len(segments) - 1) :
              Len(segments[k]) + Len(sep) + Len(segments[k + 1]) > size

\* C13: on "a\n\nb\n\nc" with chunkSize 3 and overlap 0 splitText returns
\* "a", "b", "c"; in general, segments around the coarsest separator that fit
\* a chunk one by one but not two by two come back one per chunk, in order.
C13_SegmentsOnePerChunk ==
    sp_pc = "done"
    => /\ (sp_text = ScenarioText /\ sp_size = 3 /\ sp_overlap = 0)
          => sp_chunks = << <<"a">>, <<"b">>, <<"c">> >>
       /\ OnePerChunk(sp_text, sp_size)
          => sp_chunks = Split(sp_text, CoarsestFrom(sp_text, 1))

\* the documented call has returned
C13_Witness ==
    /\ sp_pc = "done"
    /\ sp_text = ScenarioText /\ sp_size = 3 /\ sp_overlap = 0
    /\ OnePerChunk(sp_text, sp_size)
    /\ Len(sp_chunks) = 3

\* C14: splitText terminates for every text, every chunkSize C >= 1 and
\* every chunkOverlap O with 0 <= O < C, O = 0 included.
C14_SplitTextTerminates ==
    (sp_pc = "call" /\ sp_size >= 1 /\ 0 <= sp_overlap /\ sp_overlap < sp_size)
    ~> (sp_pc = "done")

(***************************************************************************)
(* Claims about the estimate, the progress reports and the expansion.      *)
(***************************************************************************)
\* generateInitialDecisionTree has just returned
InitialTreeBuilt == ad_pc = "walk" /\ pc[Root] = "new"

\* the tree is a root with breadth children that have no children
FlatInitialTree ==
    /\ Len(tree[Root].children) = BreadthOf
    /\ \A i \in 1..Len(tree[Root].children) :
          tree[tree[Root].children[i]].children = << >>

\* breadth 2, depth 2, and the initial tree was the root with its two
\* children not yet expanded
EstimateScenario ==
    /\ BreadthOf = 2 /\ MaxDepthOf = 2
    /\ \/ InitialTreeBuilt /\ FlatInitialTree
       \/ WalkReturned /\ FullStub /\ calls[Root] = 0

\* C15 as stated: in that scenario the totalBranches passed to the walk is
\* 5, fewer than the 7 nodes there are once every expansion has answered
\* with 2 children.
C15_EstimateIsFive == EstimateScenario => total = 5

\* C15 amended: in that scenario the totalBranches passed to the walk is
\* 7 = 1 + 2 * (1 + 2), the number of nodes there are once every expansion
\* has answered with 2 children.
C15_EstimateIsSeven ==
    EstimateScenario
    => /\ total = 7
       /\ WalkReturned => Cardinality(DOMAIN tree) = total

\* the scenario's walk has returned its seven nodes
C15_Witness ==
    /\ EstimateScenario /\ WalkReturned
    /\ total = 7
    /\ Cardinality(DOMAIN tree) = 7

\* the k-th snapshot carries k, and there are as many snapshots as increments
C16_SnapshotsCountUp ==
    /\ Len(events) = completed
    /\ \A k \in 1..Len(events) : events[k].completedBranches = k

\* the counter moves by one, together with one snapshot of its new value
C16_CountAndReportTogether ==
    /\ completed' # completed
       => /\ completed' = completed + 1
          /\ Len(events') = Len(events) + 1
          /\ events'[Len(events')].completedBranches = completed'
          /\ SubSeq(events', 1, Len(events)) = events
    /\ events' # events => completed' # completed

\* C16: in every interleaving of the siblings' analyses no increment of the
\* counter is lost and no snapshot is dropped or batched: each increment
\* comes with exactly one callback carrying the new value, the k-th
\* snapshot has completedBranches = k and the counter is the number of
\* snapshots.
C16_NoLostUpdateNoDroppedEvent ==
    /\ []C16_SnapshotsCountUp
    /\ [][C16_CountAndReportTogether]_vars

\* two expansions were in flight at once and the walk has reported five times
C16_Witness ==
    /\ Len(events) = 5 /\ completed = 5
    /\ WalkReturned
    /\ \E p, q \in DOMAIN tree : p # q /\ Len(p) = 1 /\ Len(q) = 1
                                   /\ calls[p] = 1 /\ calls[q] = 1

\* C17: the initial tree is one root with parentId null, at most breadth
\* children, and nothing below them.
C17_InitialTreeIsFlat ==
    InitialTreeBuilt
    => /\ tree[Root].parentId = Null
       /\ Len(tree[Root].children) <= BreadthOf
       /\ \A i \in 1..Len(tree[Root].children) :
             tree[tree[Root].children[i]].children = << >>

\* expandDecisionNode runs on a node that has children
C18_SkipStep(p) ==
    /\ pc[p] = "new" /\ pc'[p] # "new"
    /\ ~AtMaxDepth(Len(p), MaxDepthOf)
    /\ tree[p].children # << >>

\* such a call issues no generation call and leaves every node as it is
C18_SkipChangesNothing ==
    \A p \in DOMAIN tree :
        C18_SkipStep(p) => /\ pc'[p] = "expanded"
                           /\ calls' = calls
                           /\ tree' = tree
                           /\ UNCHANGED trimVars

\* a node is expanded by at most one generation call, and none if it came
\* with children
C18_AtMostOneCall ==
    \A p \in DOMAIN tree :
        /\ calls[p] <= 1
        /\ (pc[p] \in {"expanded", "map"} /\ calls[p] = 0) => tree[p].children # << >>

\* C18: expandDecisionNode on a node that has children issues no generation
\* call and returns the node with its fields and children unchanged;
\* expanding twice gives the tree that expanding once gives.
C18_ExpansionIdempotent ==
    /\ []C18_AtMostOneCall
    /\ [][C18_SkipChangesNothing]_vars

\* a node that came with children went through expandDecisionNode without
\* a call, next to a node expanded by a call
C18_Witness ==
    /\ \E p \in DOMAIN tree : /\ pc[p] = "done" /\ calls[p] = 0
                                /\ Len(p) = 1 /\ tree[p].children # << >>
    /\ \E q \in DOMAIN tree : calls[q] = 1 /\ tree[q].children # << >>

\* C19 as stated: a node that entered the walk with empty children never
\* holds children one of which is not yet analysed.
C19_NeverHalfExpanded ==
    \A p \in DOMAIN tree :
        (calls[p] = 1 /\ tree[p].children # << >>)
        => \A i \in 1..Len(tree[p].children) : pc[tree[p].children[i]] = "done"

\* the children field changes only when the generation call of its node
\* answers, from empty to the generated nodes
C19_ChildrenAssignedOnce ==
    \A p \in DOMAIN tree :
        tree'[p].children # tree[p].children
        => /\ tree[p].children = << >>
           /\ pc[p] = "call" /\ pc'[p] = "expanded"
           /\ \A i \in 1..Len(tree'[p].children) : pc'[tree'[p].children[i]] = "new"

\* a node whose analysis has returned holds no child below the depth limit
\* whose analysis has not
C19_ReturnedNodesAreWhole ==
    \A p \in DOMAIN tree :
        (pc[p] = "done" /\ ~AtMaxDepth(Len(p), MaxDepthOf))
        => \A i \in 1..Len(tree[p].children) : pc[tree[p].children[i]] = "done"

\* C19 amended: the children field of a node that entered the walk with
\* empty children is filled when its generation call answers, before any of
\* those children is analysed, and is not changed afterwards (the fan-in
\* assigns the same nodes in the same order); what waits for the children is
\* the node's return: a node whose analysis has returned has all its
\* children analysed.
C19_FanInBarrier ==
    /\ []C19_ReturnedNodesAreWhole
    /\ [][C19_ChildrenAssignedOnce]_vars

\* a node expanded by a call has returned with two analysed children
C19_Witness ==
    \E p \in DOMAIN tree :
        /\ calls[p] = 1 /\ pc[p] = "done"
        /\ Len(tree[p].children) = 2
        /\ \A i \in 1..2 : pc[tree[p].children[i]] = "done"

\* the analysis of a node returns only when those of its children have
C20_ReturnAfterChildren ==
    \A p \in DOMAIN tree :
        (pc[p] # "done" /\ pc'[p] = "done" /\ ~AtMaxDepth(Len(p), MaxDepthOf))
        => \A i \in 1..Len(tree'[p].children) : pc[tree'[p].children[i]] = "done"

\* once the walk has returned nothing is in flight: every node down to
\* the depth limit has returned, a failed one as a leaf
C20_NothingInFlight ==
    WalkReturned
    => /\ run = NoRun
       /\ \A p \in DOMAIN tree :
             /\ Len(p) <= MaxDepthOf => pc[p] = "done"
             /\ Len(p) > MaxDepthOf => pc[p] = "new"
             /\ p \in warned => tree[p].children = << >>

\* C20: the analysis of a node returns only after the analyses of all its
\* children have, each with its expansion answered or degraded to a leaf;
\* so when the walk returns no generation call and no child analysis is in
\* flight.
C20_StructuredConcurrency ==
    /\ []C20_NothingInFlight
    /\ [][C20_ReturnAfterChildren]_vars

\* the walk has returned a tree of depth 2 in which one first-level node
\* degraded to a leaf and another was expanded
C20_Witness ==
    /\ WalkReturned /\ MaxDepthOf = 2
    /\ \E p \in warned : Len(p) = 1
    /\ \E q \in DOMAIN tree : Len(q) = 2 /\ pc[q] = "done"

(***************************************************************************)
(* Claims about the root's report, the generation calls and the estimator. *)
(***************************************************************************)
\* the k-th snapshot is the one of the root's completion
IsRootSnapshot(k) == events[k].currentDepth = 0

\* C21: for maxDepth >= 1 a walk emits exactly one root-completion snapshot
\* (currentDepth = 0); every other snapshot is a terminal node's, the root's
\* comes after all of them and no snapshot is delivered after it.
C21_RootSnapshotLast ==
    MaxDepthOf >= 1
    => /\ \A k \in 1..Len(events) :
             IF IsRootSnapshot(k)
             THEN k = Len(events) /\ pc[Root] = "done"
             ELSE events[k].currentDepth = MaxDepthOf
       /\ WalkReturned
          => /\ Len(events) >= 1 /\ IsRootSnapshot(Len(events))
             /\ Len(events) = Cardinality(TerminalNodes) + 1

\* a walk of depth 2 has returned after the reports of two terminal nodes
\* or more and then the root's
C21_Witness ==
    /\ WalkReturned /\ MaxDepthOf = 2
    /\ Len(events) >= 3
    /\ IsRootSnapshot(Len(events))
    /\ \A k \in 1..(Len(events) - 1) : events[k].currentDepth = 2


\* a generation call is issued for a node below the depth limit that has no
\* children and has had no call before
C22_CallOnlyOnEmptyBelowLimit ==
    \A p \in DOMAIN tree :
        calls'[p] # calls[p]
        => /\ calls[p] = 0 /\ calls'[p] = 1
           /\ Len(p) < MaxDepthOf
           /\ tree[p].children = << >>
           /\ tree'[p].children = << >>

\* children that are there stay, the same nodes in the same order
C22_ChildrenStay ==
    \A p \in DOMAIN tree :
        tree[p].children # << >>
        => /\ tree'[p].children = tree[p].children
           /\ \A i \in 1..Len(tree[p].children) :
                 tree'[tree[p].children[i]].id = tree[tree[p].children[i]].id

\* C22: during a walk a generation call is issued for a node only if the
\* node's depth is below maxDepth and its children are empty at that moment,
\* and at most once for a node; once a node's children are non-empty they
\* are never replaced by other nodes or put in another order.
C22_OneCallOnEmptyThenFixed ==
    /\ [][C22_CallOnlyOnEmptyBelowLimit]_vars
    /\ [][C22_ChildrenStay]_vars

\* a walk of depth 2 has returned with a call issued for the root and for
\* a first-level node, and none for a node at the depth limit
C22_Witness ==
    /\ WalkReturned /\ MaxDepthOf = 2
    /\ calls[Root] = 1
    /\ \E p \in DOMAIN tree : Len(p) = 1 /\ calls[p] = 1 /\ Len(tree[p].children) = 2
    /\ \A q \in DOMAIN tree : Len(q) >= 2 => calls[q] = 0


\* the documented count of the node at position p of tree t
RECURSIVE CountClosedForm(_, _, _, _, _)
CountClosedForm(t, p, depth, D, B) ==
    IF depth >= D THEN 1
    ELSE IF t[p].children # << >>
    THEN LET kids == t[p].children
             Partial[k \in 0..Len(kids)] ==
                 IF k = 0 THEN 0
                 ELSE Partial[k - 1] + CountClosedForm(t, kids[k], depth + 1, D, B)
         IN  1 + Partial[Len(kids)]
    ELSE 1 + B ^ (D - depth)

\* C23: calculateTotalBranches(node, depth, D, B) is 1 if depth >= D;
\* otherwise, if the node has children, 1 plus the sum of the counts of its
\* children at depth + 1; otherwise 1 + B^(D - depth).
C23_EstimateIsClosedForm ==
    est_pc = "done"
    => est_result = CountClosedForm(est_node, Root, est_args.depth,
                                    est_args.maxDepth, est_args.breadth)

\* the estimator has returned on a node below the limit whose children are
\* one with children of its own and one without, so that the sum and the
\* power both come in
C23_Witness ==
    /\ est_pc = "done"
    /\ est_args.depth = 1 /\ est_args.maxDepth = 3 /\ est_args.breadth = 2
    /\ Len(est_node[Root].children) = 2
    /\ Len(est_node[<<1>>].children) = 2
    /\ est_node[<<2>>].children = << >>
    /\ est_result = 1 + (1 + 1 + 1) + (1 + 2)


(***************************************************************************)
(* Claims about the chunks and about what trimPrompt returns.              *)
(***************************************************************************)
\* the windows of size C that start at 0, C - O, 2 (C - O), ... in text
FixedWindows(text, C, O) ==
    [k \in 1..((Len(text) + (C - O) - 1) \div (C - O)) |->
        Slice(text, (k - 1) * (C - O), (k - 1) * (C - O) + C)]

\* C24: when no separator yields more than one chunk, splitText returns the
\* windows of size C that start at 0, C - O, 2 (C - O), ... for the overlap O
\* the caller passed; with the overlap 0 that trimPrompt passes, the windows
\* are disjoint and advance by C.
C24_FallbackWindowsAsPassed ==
    (tp_pc = "split" /\ NoSeparator(tp_prompt) /\ Len(tp_prompt) > tp_chunk)
    => /\ ~TrimSplitter.div
       /\ TrimSplitter.chunks = FixedWindows(tp_prompt, tp_chunk, 0)


\* the chunks from the k-th on occur in text, each at a position not before
\* the position of the one before it, the k-th not before from
RECURSIVE OccurInOrder(_, _, _, _)
OccurInOrder(text, chunks, k, from) ==
    \/ k > Len(chunks)
    \/ \E i \in from..Len(text) :
          /\ MatchAt(text, chunks[k], i)
          /\ OccurInOrder(text, chunks, k + 1, i)

\* C25: every chunk splitText returns is a contiguous substring of the
\* text, and the chunks come in the order of their positions in the text,
\* also when separators come in a row, first or last in the text.
C25_ChunksAreSubstringsInOrder ==
    sp_pc = "done" => OccurInOrder(sp_text, sp_chunks, 1, 1)


(***************************************************************************)
(* Claims about the progress ratio and the order of the children.          *)
(***************************************************************************)
\* no answer of the generator carried a node with children of its own: a
\* node other than the root has children only from its own generation call
FlatAnswers ==
    \A p \in DOMAIN tree : (p # Root /\ tree[p].children # << >>) => calls[p] = 1

\* C26: when the initial tree and every expansion hold at most B children,
\* each without children, every snapshot delivered during the walk has
\* completedBranches <= totalBranches, and totalBranches is the same value
\* in every snapshot: the estimate made before the walk.
C26_CompletedWithinTotal ==
    FlatAnswers
    => \A k \in 1..Len(events) :
          /\ events[k].completedBranches <= events[k].totalBranches
          /\ events[k].totalBranches = total
          /\ events[k].totalBranches = events[1].totalBranches

\* a walk of depth 1 on a root with two children has returned, and its last
\* snapshot has completedBranches = totalBranches = 3
C26_Witness ==
    /\ WalkReturned /\ FlatAnswers
    /\ MaxDepthOf = 1 /\ BreadthOf = 2
    /\ Len(events) = 3
    /\ events[3].completedBranches = 3 /\ events[3].totalBranches = 3


\* the initial tree came with a first-level child, and the walk goes at
\* least one level below it
ChildrenGivenAtStart ==
    /\ ad_pc \notin {"off", "init", "failed"}
    /\ MaxDepthOf >= 2
    /\ calls[Root] = 0 /\ tree[Root].children # << >>

\* C27: for maxDepth >= 2 and an initial tree with at least one first-level
\* child, when every answer holds at most B children without children (be
\* it exactly B at every call), completedBranches stays below totalBranches
\* up to the last snapshot, so the percentage reported never reaches 100.
C27_ProgressStaysBelowTotal ==
    (ChildrenGivenAtStart /\ FlatAnswers)
    => /\ completed < total
       /\ \A k \in 1..Len(events) :
             /\ events[k].completedBranches < events[k].totalBranches
             /\ PercentComplete(events[k]) < 100

\* a walk of depth 2 and breadth 2 on a root given with two children, every
\* call answered with two children, has returned: 5 of 7, reported as 71%
C27_Witness ==
    /\ ChildrenGivenAtStart /\ FlatAnswers
    /\ WalkReturned /\ FullStub
    /\ BreadthOf = 2
    /\ completed = 5 /\ total = 7
    /\ PercentComplete(events[Len(events)]) = 71


\* text is within the budget by a count the tokenizer may report for it
WithinBudget(text) == \E length \in TokenCounts(text) : length <= tp_ctx

\* C28: a value trimPrompt(text, N) returns measures at most N tokens or is
\* at most MIN_CHUNK_SIZE (140) characters long: no over-budget string
\* longer than the floor is returned.
C28_ResultWithinBudgetOrFloor ==
    tp_pc = "done" => (WithinBudget(tp_result) \/ Len(tp_result) <= MIN_CHUNK_SIZE)

\* an over-budget text came back from a recursive call longer than the
\* floor and within budget
C28_Witness ==
    /\ tp_pc = "done" /\ OverBudget
    /\ tp_depth >= 1
    /\ Len(tp_result) > MIN_CHUNK_SIZE
    /\ Len(tp_result) < Len(tp_text)
    /\ WithinBudget(tp_result)


\* the splitter called by trimPrompt has returned and the recursive call is made
C29_SplitStep == tp_pc = "split" /\ tp_pc' = "entry"

\* the first chunk is shorter than the prompt, and it is the argument of
\* the recursive call: the hard cut of line 122 is not taken
C29_FirstChunkShorter ==
    C29_SplitStep
    => /\ ~TrimSplitter.div /\ TrimSplitter.chunks # << >>
       /\ Len(TrimSplitter.chunks[1]) < Len(tp_prompt)
       /\ Len(TrimSplitter.chunks[1]) <= tp_chunk
       /\ tp_prompt' = TrimSplitter.chunks[1]
       /\ Len(tp_prompt') < Len(tp_prompt)

C30_InGeneratedOrder(p) ==
    \A i \in 1..Len(tree[p].children) :
        /\ tree[p].children[i] = p \o <<i>>
        /\ tree[p \o <<i>>].id \in {Uuid(p \o <<i>>), GenId(i)}

\* C30: the children of every node expanded during a walk are, in the tree
\* returned and at every moment before, in the order in which the generator
\* returned them, whatever the order in which their analyses complete.
C30_ChildrenInGeneratedOrder ==
    \A p \in DOMAIN tree : C30_InGeneratedOrder(p)

\* the walk has returned a root expanded by a call whose two children carry
\* the generator's ids 1 and 2 in this order, each analysed through a call
\* of its own, so that either could complete first
C30_Witness ==
    /\ WalkReturned /\ MaxDepthOf = 2
    /\ calls[Root] = 1 /\ Len(tree[Root].children) = 2
    /\ tree[<<1>>].id = GenId(1) /\ tree[<<2>>].id = GenId(2)
    /\ calls[<<1>>] = 1 /\ calls[<<2>>] = 1
    /\ tree[Root].children = << <<1>>, <<2>> >>

====
